---- MODULE Spec2Model ----
(***************************************************************************)
(* Model of src/src/predict.py: Predictor.Run, KalmanFilterGeneric,        *)
(* SimpleRandomInitializer and KalmanFilterBasic.                          *)
(*                                                                         *)
(* Numbers are exact rationals <<n, d>> (d > 0, lowest terms).  The        *)
(* positions, dt and v_mean of the model are dyadic, so the initializer's  *)
(* float arithmetic (products, differences, absolute values) is exact on   *)
(* them.                                                                   *)
(*                                                                         *)
(* predict.py is Python 2 code (it unpickles from a text-mode file and     *)
(* pickles into one, predict.py:25-26 and 61-65, which Python 3 rejects    *)
(* in the constructor), so dict.keys() and dict.items() return lists.      *)
(***************************************************************************)
EXTENDS Integers, Sequences, FiniteSets, TLC

VARIABLES parameters, F, H, Q, R, frames, log_freq, f, pc, cause, state,
          input_data, pos_error, vel_error, persisted, rendered, processed,
          tracked_before, events

vars == <<parameters, F, H, Q, R, frames, log_freq, f, pc, cause, state,
          input_data, pos_error, vel_error, persisted, rendered, processed,
          tracked_before, events>>

(***************************************************************************)
(* Bounds of the model.                                                    *)
(***************************************************************************)
MaxFrames == 3

ObjectIds == {1, 2}

LogFreqs == {0, 2}

(***************************************************************************)
(* Rational arithmetic.                                                    *)
(***************************************************************************)
Abs(n) == IF n < 0 THEN -n ELSE n

RECURSIVE GCD(_, _)
GCD(a, b) == IF b = 0 THEN a ELSE GCD(b, a % b)

Norm(n, d) ==
    LET s == IF d < 0 THEN -1 ELSE 1
        g == GCD(Abs(n), Abs(d))
    IN  <<(s * n) \div g, (s * d) \div g>>

Rat(n, d) == Norm(n, d)

Zero == <<0, 1>>

One == <<1, 1>>

\* Sums and products cancel common factors before they multiply.
RAdd(a, b) ==
    IF a[1] = 0 THEN b
    ELSE IF b[1] = 0 THEN a
    ELSE IF a[2] = 1 /\ b[2] = 1 THEN <<a[1] + b[1], 1>>
    ELSE
    LET g == GCD(a[2], b[2])
    IN  Norm(a[1] * (b[2] \div g) + b[1] * (a[2] \div g), a[2] * (b[2] \div g))

RNeg(a) == <<-a[1], a[2]>>

RSub(a, b) == RAdd(a, RNeg(b))

RMul(a, b) ==
    IF a[1] = 0 \/ b[1] = 0 THEN <<0, 1>>
    ELSE IF a = <<1, 1>> THEN b
    ELSE IF b = <<1, 1>> THEN a
    ELSE
    LET g == GCD(Abs(a[1]), b[2])
        h == GCD(Abs(b[1]), a[2])
    IN  Norm((a[1] \div g) * (b[1] \div h), (a[2] \div h) * (b[2] \div g))

RDiv(a, b) == RMul(a, IF b[1] < 0 THEN <<-b[2], -b[1]>> ELSE <<b[2], b[1]>>)

RAbs(a) == <<Abs(a[1]), a[2]>>

RLess(a, b) == a[1] * b[2] < b[1] * a[2]

(***************************************************************************)
(* numpy vectors and matrices: a vector is a tuple of rationals, a matrix  *)
(* a tuple of rows.  Force evaluates a tuple once.                         *)
(***************************************************************************)
Force(s) == s \o <<>>

RECURSIVE SumTo(_, _)
SumTo(v, n) == IF n = 0 THEN Zero ELSE RAdd(SumTo(v, n - 1), v[n])

VSum(v) == SumTo(v, Len(v))

VAdd(u, v) == Force([i \in 1..Len(u) |-> RAdd(u[i], v[i])])

VSub(u, v) == Force([i \in 1..Len(u) |-> RSub(u[i], v[i])])

Dot(u, v) == VSum(Force([i \in 1..Len(u) |-> RMul(u[i], v[i])]))

Col(B, j) == Force([k \in 1..Len(B) |-> B[k][j]])

Transpose(A) == Force([j \in 1..Len(A[1]) |-> Col(A, j)])

MatMul(A, B) ==
    LET Bt == Transpose(B)
    IN  Force([i \in 1..Len(A) |->
            Force([j \in 1..Len(Bt) |-> Dot(A[i], Bt[j])])])

MatVec(A, v) == Force([i \in 1..Len(A) |-> Dot(A[i], v)])

MatAdd(A, B) == Force([i \in 1..Len(A) |-> VAdd(A[i], B[i])])

MatSub(A, B) == Force([i \in 1..Len(A) |-> VSub(A[i], B[i])])

Scale(c, A) ==
    Force([i \in 1..Len(A) |->
        Force([j \in 1..Len(A[i]) |-> RMul(c, A[i][j])])])

Eye(n) ==
    Force([i \in 1..n |->
        Force([j \in 1..n |-> IF i = j THEN One ELSE Zero])])

Zeros(n, m) == Force([i \in 1..n |-> Force([j \in 1..m |-> Zero])])

HStack(A, B) == Force([i \in 1..Len(A) |-> A[i] \o B[i]])

VStack(A, B) == A \o B

Det2(S) == RSub(RMul(S[1][1], S[2][2]), RMul(S[1][2], S[2][1]))

\* np.linalg.inv of a 2x2 matrix; the caller tests Singular first
\* (numpy raises LinAlgError on a singular matrix).
Singular(S) == Det2(S) = Zero

Inv2(S) ==
    LET d == Det2(S)
    IN  <<  <<RDiv(S[2][2], d), RDiv(RNeg(S[1][2]), d)>>,
            <<RDiv(RNeg(S[2][1]), d), RDiv(S[1][1], d)>>  >>

(***************************************************************************)
(* Inputs.  A parameter record is the unpickled 'parameters' dict; a frame *)
(* record set maps an object id to <<true position, true velocity,         *)
(* observed position>> (data_reader.ReadStateWithID).                      *)
(***************************************************************************)
Half == Rat(1, 2)

Quarter == Rat(1, 4)

Params(dt, pos_sigma, a_sigma, v_mean) ==
    [dt |-> dt, pos_sigma |-> pos_sigma, a_sigma |-> a_sigma, v_mean |-> v_mean]

\* Noise parameters with one of the two sigmas zero keep the exact rationals
\* of a run within TLC's 32-bit integers; with both zero S is singular.
ParamSet ==
    { Params(Half, One, Zero, Half),
      Params(One, Zero, One, One),
      Params(Half, Zero, Zero, Half) }

ObsPositions == { <<Zero, Zero>>, <<Quarter, Zero>> }

TrueStates == { << <<Zero, Zero>>, <<Half, Zero>> >> }

Records == { <<t[1], t[2], o>> : t \in TrueStates, o \in ObsPositions }

FrameData == UNION { [S -> Records] : S \in SUBSET ObjectIds }

EmptyDict == [o \in {} |-> o]

\* The orders in which a dict of these keys may be iterated.
Orders(S) ==
    { s \in [1..Cardinality(S) -> S] :
        \A i, j \in 1..Cardinality(S) : s[i] = s[j] => i = j }

Range(s) == { s[i] : i \in 1..Len(s) }

(***************************************************************************)
(* KalmanObjectState.  cov_ref names the array object x_cov is bound to:   *)
(* the place and time of its allocation.  ClassEye4 is the class attribute *)
(* eye4, the default every constructor call without x_cov shares.          *)
(***************************************************************************)
Alloc(site, frame, oid) == [site |-> site, frame |-> frame, oid |-> oid]

ClassEye4 == Alloc("KalmanObjectState.eye4", 0, 0)

KalmanObjectState(x_obs, x_est, x_pred, x_cov, cov_ref, done) ==
    [x_obs |-> x_obs, x_est |-> x_est, x_pred |-> x_pred, x_cov |-> x_cov,
     cov_ref |-> cov_ref, done |-> done,
     x_true |-> <<>>, v_true |-> <<>>]

(***************************************************************************)
(* KalmanFilterGeneric.__init__: the motion model.                         *)
(***************************************************************************)
MakeF(p) ==
    VStack(HStack(Eye(2), Scale(p.dt, Eye(2))), HStack(Zeros(2, 2), Eye(2)))

MakeH == HStack(Eye(2), Zeros(2, 2))

MakeG(p) ==
    VStack(Scale(RDiv(RMul(p.dt, p.dt), Rat(2, 1)), Eye(2)),
           Scale(p.dt, Eye(2)))

MakeQ(p) ==
    Scale(RMul(p.a_sigma, p.a_sigma), MatMul(MakeG(p), Transpose(MakeG(p))))

MakeR(p) == Scale(RMul(p.pos_sigma, p.pos_sigma), Eye(2))

(***************************************************************************)
(* SimpleRandomInitializer.                                                *)
(***************************************************************************)
\* np.argmin: a left-to-right scan that replaces the best index only by a
\* strictly smaller element, so the first minimal element wins (0-based).
RECURSIVE ArgMinFrom(_, _, _)
ArgMinFrom(v, i, best) ==
    IF i > Len(v) THEN best - 1
    ELSE ArgMinFrom(v, i + 1, IF RLess(v[i], v[best]) THEN i ELSE best)

\* Mutant: the scan also replaces the best index by an equal element, so the
\* last minimal element wins.
RECURSIVE ArgMinLastFrom(_, _, _)
ArgMinLastFrom(v, i, best) ==
    IF i > Len(v) THEN best - 1
    ELSE ArgMinLastFrom(v, i + 1, IF RLess(v[best], v[i]) THEN best ELSE i)

ArgMinLast(v) == ArgMinLastFrom(v, 2, 1)

ArgMin(v) == ArgMinFrom(v, 2, 1)

InitialCov(p) ==
    VStack(HStack(Scale(RMul(p.pos_sigma, p.pos_sigma), Eye(2)), Zeros(2, 2)),
           HStack(Zeros(2, 2), Scale(RMul(p.a_sigma, p.a_sigma), Eye(2))))

EdgeMean(p, pos) ==
    LET delta == RMul(p.v_mean, p.dt)
    IN  << RSub(pos[1], delta), RSub(pos[2], delta),
           RSub(pos[1], RSub(One, delta)), RSub(pos[2], RSub(One, delta)) >>

Side(p, pos) ==
    LET mean == EdgeMean(p, pos)
    IN  ArgMin(Force([i \in 1..4 |-> RAbs(mean[i])]))

InitialVelocity(p, side) ==
    IF side = 0 THEN <<p.v_mean, Zero>>
    ELSE IF side = 1 THEN <<Zero, p.v_mean>>
    ELSE IF side = 2 THEN <<RNeg(p.v_mean), Zero>>
    ELSE <<Zero, RNeg(p.v_mean)>>

\* Mutant: x_cov is left to the constructor's default, the class attribute.
SimpleRandomInitializerDefaultCov(p, pos, ref) ==
    LET v  == InitialVelocity(p, Side(p, pos))
        xe == pos \o v
    IN  KalmanObjectState(pos, xe, xe, Eye(4), ClassEye4, TRUE)

SimpleRandomInitializer(p, pos, ref) ==
    LET v  == InitialVelocity(p, Side(p, pos))
        xe == pos \o v
    IN  KalmanObjectState(pos, xe, xe, InitialCov(p), ref, TRUE)

(***************************************************************************)
(* Per-frame event log (history): what each phase did to each object id in *)
(* the frame being processed.                                              *)
(***************************************************************************)
NoEvents == [o \in ObjectIds |-> <<>>]

Log(ev, S, e) == [o \in ObjectIds |-> IF o \in S THEN Append(ev[o], e) ELSE ev[o]]

(***************************************************************************)
(* Predictor.__init__ and KalmanFilterGeneric.__init__.                    *)
(***************************************************************************)
Init ==
    /\ parameters \in ParamSet
    /\ F = MakeF(parameters)
    /\ H = MakeH
    /\ Q = MakeQ(parameters)
    /\ R = MakeR(parameters)
    /\ frames \in 0..MaxFrames
    /\ log_freq \in LogFreqs
    /\ f = 0
    /\ pc = "loop"
    /\ cause = "none"
    /\ state = EmptyDict
    /\ input_data = EmptyDict
    /\ pos_error = <<>>
    /\ vel_error = <<>>
    /\ persisted = <<>>
    /\ rendered = <<>>
    /\ processed = <<>>
    /\ tracked_before = {}
    /\ events = NoEvents

model == <<parameters, F, H, Q, R>>

args == <<frames, log_freq>>

(***************************************************************************)
(* Predictor.Run, lines 53-55: the loop header and the log line.           *)
(***************************************************************************)
RunFrame ==
    /\ pc = "loop"
    /\ f < frames
    /\ log_freq # 0
    /\ pc' = "predict"
    /\ UNCHANGED <<model, args, f, cause, state, input_data, pos_error,
                   vel_error, persisted, rendered, processed, tracked_before,
                   events>>

\* f % log_freq with log_freq = 0 raises ZeroDivisionError.
RunLogFault ==
    /\ pc = "loop"
    /\ f < frames
    /\ log_freq = 0
    /\ pc' = "aborted"
    /\ cause' = "ZeroDivisionError"
    /\ UNCHANGED <<model, args, f, state, input_data, pos_error, vel_error,
                   persisted, rendered, processed, tracked_before, events>>

(***************************************************************************)
(* KalmanFilterGeneric.Estimate, first loop: predict every tracked object. *)
(***************************************************************************)
\* Mutant: the prediction does not reset the done flag.
PredictObjectKeepDone(s, oid) ==
    [s EXCEPT !.x_pred  = MatVec(F, s.x_est),
              !.x_cov   = MatAdd(MatMul(MatMul(F, s.x_cov), Transpose(F)), Q),
              !.cov_ref = Alloc("predict", f, oid)]

PredictObject(s, oid) ==
    [s EXCEPT !.x_pred  = MatVec(F, s.x_est),
              !.x_cov   = MatAdd(MatMul(MatMul(F, s.x_cov), Transpose(F)), Q),
              !.cov_ref = Alloc("predict", f, oid),
              !.done    = FALSE]

Predict ==
    /\ pc = "predict"
    /\ state' = [oid \in DOMAIN state |-> PredictObject(state[oid], oid)]
    /\ events' = Log(NoEvents, DOMAIN state, "predict")
    /\ tracked_before' = DOMAIN state
    /\ processed' = Append(processed, f)
    /\ pc' = "refresh"
    /\ UNCHANGED <<model, args, f, cause, input_data, pos_error, vel_error,
                   persisted, rendered>>

(***************************************************************************)
(* KalmanFilterBasic.UpdateTrackedObjects.                                 *)
(***************************************************************************)
Del(st, oid) == [o \in DOMAIN st \ {oid} |-> st[o]]

\* Lines 290-293.  tracking is the list self.state.keys() returned before
\* the loop; the loop deletes from self.state while walking that list.
RECURSIVE ScanTracking(_, _, _, _)
ScanTracking(st, tracking, i, data) ==
    IF i > Len(tracking)
    THEN [state |-> st, visited |-> tracking, completed |-> TRUE]
    ELSE ScanTracking(IF tracking[i] \notin DOMAIN data
                      THEN Del(st, tracking[i]) ELSE st,
                      tracking, i + 1, data)

\* Mutant: nothing is deleted.
StopTrackingKeepAll(st, tracking, data) ==
    [state |-> st, visited |-> tracking, completed |-> TRUE]

\* Mutant: the loop walks the dict itself (a live view of its keys), and the
\* iterator raises RuntimeError at the step after the first deletion.
RECURSIVE ScanLiveView(_, _, _, _)
ScanLiveView(st, tracking, i, data) ==
    IF Cardinality(DOMAIN st) # Len(tracking)
    THEN [state |-> st, visited |-> SubSeq(tracking, 1, i - 1),
          completed |-> FALSE]
    ELSE IF i > Len(tracking)
    THEN [state |-> st, visited |-> tracking, completed |-> TRUE]
    ELSE ScanLiveView(IF tracking[i] \notin DOMAIN data
                      THEN Del(st, tracking[i]) ELSE st,
                      tracking, i + 1, data)

StopTrackingLiveView(st, tracking, data) == ScanLiveView(st, tracking, 1, data)

StopTracking(st, tracking, data) == ScanTracking(st, tracking, 1, data)

\* Lines 295-308.
ObserveObject(st, data, oid) ==
    LET s == IF oid \in DOMAIN st
             THEN [st[oid] EXCEPT !.x_obs = data[oid][3]]
             ELSE [SimpleRandomInitializer(parameters, data[oid][3],
                                           Alloc("init", f, oid))
                   EXCEPT !.done = TRUE]
    IN  [s EXCEPT !.x_true = data[oid][1], !.v_true = data[oid][2]]

Observe(st, data) ==
    [oid \in DOMAIN st \cup DOMAIN data |->
        IF oid \in DOMAIN data THEN ObserveObject(st, data, oid) ELSE st[oid]]

\* Mutant: the missing file is reported and the frame is skipped.
MissingFrameDataSkipsFrame ==
    /\ pc = "refresh"
    /\ pc' = "loop"
    /\ f' = f + 1
    /\ cause' = "MissingFrameData"
    /\ UNCHANGED <<model, args, state, input_data, pos_error, vel_error,
                   persisted, rendered, processed, tracked_before, events>>

\* Lines 285-287: no state file for the frame.
MissingFrameData ==
    /\ pc = "refresh"
    /\ pc' = "aborted"
    /\ cause' = "MissingFrameData"
    /\ UNCHANGED <<model, args, f, state, input_data, pos_error, vel_error,
                   persisted, rendered, processed, tracked_before, events>>

UpdateTrackedObjects ==
    /\ pc = "refresh"
    /\ \E data \in FrameData, tracking \in Orders(DOMAIN state) :
        LET r    == StopTracking(state, tracking, data)
            seen == Log(events, Range(r.visited), "scan")
            gone == Log(seen, DOMAIN state \ DOMAIN r.state, "delete")
            kept == Log(gone, DOMAIN r.state \cap DOMAIN data, "observe")
            made == Log(kept, DOMAIN data \ DOMAIN r.state, "create")
        IN  /\ input_data' = data
            /\ IF r.completed
               THEN /\ state' = Observe(r.state, data)
                    /\ events' = made
                    /\ pc' = "correct"
                    /\ cause' = cause
               ELSE /\ state' = r.state
                    /\ events' = gone
                    /\ pc' = "aborted"
                    /\ cause' = "RuntimeError"
    /\ UNCHANGED <<model, args, f, pos_error, vel_error, persisted, rendered,
                   processed, tracked_before>>

(***************************************************************************)
(* KalmanFilterGeneric.Estimate, second loop: correct every object that is *)
(* not done.                                                               *)
(***************************************************************************)
\* Mutant: the correction loop skips no object.
IsDoneNever(s) == FALSE

IsDone(s) == s.done

Innovation(s) == VSub(s.x_obs, MatVec(H, s.x_pred))

InnovationCov(s) == MatAdd(MatMul(MatMul(H, s.x_cov), Transpose(H)), R)

\* Mutant: the gain corrects the previous estimate, not the prediction.
CorrectObjectFromEstimate(s, oid) ==
    LET xcov == s.x_cov
        y    == Innovation(s)
        Sinv == Inv2(InnovationCov(s))
        K    == MatMul(MatMul(xcov, Transpose(H)), Sinv)
        xe   == VAdd(s.x_est, MatVec(K, y))
        KH   == MatMul(K, H)
    IN  [s EXCEPT !.x_est   = xe,
                  !.x_cov   = MatMul(MatSub(Eye(Len(KH)), KH), s.x_cov),
                  !.cov_ref = Alloc("correct", f, oid),
                  !.done    = TRUE]

CorrectObject(s, oid) ==
    LET xp   == s.x_pred
        xcov == s.x_cov
        y    == Innovation(s)
        Sinv == Inv2(InnovationCov(s))
        K    == MatMul(MatMul(xcov, Transpose(H)), Sinv)
        xe   == VAdd(xp, MatVec(K, y))
        KH   == MatMul(K, H)
    IN  [s EXCEPT !.x_est   = xe,
                  !.x_cov   = MatMul(MatSub(Eye(Len(KH)), KH), s.x_cov),
                  !.cov_ref = Alloc("correct", f, oid),
                  !.done    = TRUE]

\* The loop over self.state.items() in the order items; np.linalg.inv raises
\* LinAlgError on a singular S and ends the loop there.
RECURSIVE CorrectLoop(_, _, _, _)
CorrectLoop(st, ev, items, i) ==
    IF i > Len(items) THEN [state |-> st, events |-> ev, fault |-> FALSE]
    ELSE LET oid == items[i]
         IN  IF IsDone(st[oid]) THEN CorrectLoop(st, ev, items, i + 1)
             ELSE IF Singular(InnovationCov(st[oid]))
             THEN [state |-> st, events |-> ev, fault |-> TRUE]
             ELSE CorrectLoop([st EXCEPT ![oid] = CorrectObject(st[oid], oid)],
                              Log(ev, {oid}, "correct"), items, i + 1)

Correct ==
    /\ pc = "correct"
    /\ \E items \in Orders(DOMAIN state) :
        LET r == CorrectLoop(state, events, items, 1)
        IN  /\ state' = r.state
            /\ events' = r.events
            /\ pc' = IF r.fault THEN "aborted" ELSE "error"
            /\ cause' = IF r.fault THEN "LinAlgError" ELSE cause
    /\ UNCHANGED <<model, args, f, input_data, pos_error, vel_error, persisted,
                   rendered, processed, tracked_before>>

(***************************************************************************)
(* KalmanFilterBasic.ComputeError.  A frame's value is the mean of square  *)
(* roots, kept as the squared distances under the roots and the divisor.   *)
(***************************************************************************)
SqDist(u, v) == Dot(VSub(u, v), VSub(u, v))

MeanOfRoots(sq, n) == [sqrt_of |-> sq, over |-> n]

FramePosError(st) ==
    MeanOfRoots([oid \in DOMAIN st |->
                    SqDist(SubSeq(st[oid].x_est, 1, 2), st[oid].x_true)],
                Cardinality(DOMAIN st))

FrameVelError(st) ==
    MeanOfRoots([oid \in DOMAIN st |->
                    SqDist(SubSeq(st[oid].x_est, 3, 4), st[oid].v_true)],
                Cardinality(DOMAIN st))

\* Mutant: a value is appended only on the frames that are logged.
ComputeErrorOnLogFrames ==
    /\ pc = "error"
    /\ events' = Log(events, DOMAIN state, "score")
    /\ IF Cardinality(DOMAIN state) = 0
       THEN /\ pc' = "aborted"
            /\ cause' = "ZeroDivisionError"
            /\ UNCHANGED <<pos_error, vel_error>>
       ELSE /\ pos_error' = IF f % log_freq = 0
                            THEN Append(pos_error, FramePosError(state))
                            ELSE pos_error
            /\ vel_error' = IF f % log_freq = 0
                            THEN Append(vel_error, FrameVelError(state))
                            ELSE vel_error
            /\ pc' = "image"
            /\ cause' = cause
    /\ UNCHANGED <<model, args, f, state, input_data, persisted, rendered,
                   processed, tracked_before>>

\* Mutant: the mean over no object is appended (as NaN) and the run goes on.
ComputeErrorEmptyMean ==
    /\ pc = "error"
    /\ events' = Log(events, DOMAIN state, "score")
    /\ pos_error' = Append(pos_error, FramePosError(state))
    /\ vel_error' = Append(vel_error, FrameVelError(state))
    /\ pc' = "image"
    /\ UNCHANGED <<model, args, f, cause, state, input_data, persisted,
                   rendered, processed, tracked_before>>

\* With no tracked object the sums are the integer 0 and 0/0 raises
\* ZeroDivisionError at line 323, before either append.
ComputeError ==
    /\ pc = "error"
    /\ events' = Log(events, DOMAIN state, "score")
    /\ IF Cardinality(DOMAIN state) = 0
       THEN /\ pc' = "aborted"
            /\ cause' = "ZeroDivisionError"
            /\ UNCHANGED <<pos_error, vel_error>>
       ELSE /\ pos_error' = Append(pos_error, FramePosError(state))
            /\ vel_error' = Append(vel_error, FrameVelError(state))
            /\ pc' = "image"
            /\ cause' = cause
    /\ UNCHANGED <<model, args, f, state, input_data, persisted, rendered,
                   processed, tracked_before>>

(***************************************************************************)
(* Predictor.Run, lines 58-59 and the step of the loop, then lines 60-65.  *)
(***************************************************************************)
SaveEstimateAsImage ==
    /\ pc = "image"
    /\ rendered' = IF f % log_freq = 0 THEN Append(rendered, f) ELSE rendered
    /\ f' = f + 1
    /\ pc' = "loop"
    /\ UNCHANGED <<model, args, cause, state, input_data, pos_error, vel_error,
                   persisted, processed, tracked_before, events>>

Persist ==
    /\ pc = "loop"
    /\ f >= frames
    /\ persisted' = <<pos_error, vel_error>>
    /\ pc' = "done"
    /\ UNCHANGED <<model, args, f, cause, state, input_data, pos_error,
                   vel_error, rendered, processed, tracked_before, events>>

Next ==
    \/ RunFrame
    \/ RunLogFault
    \/ Predict
    \/ MissingFrameData
    \/ UpdateTrackedObjects
    \/ Correct
    \/ ComputeError
    \/ SaveEstimateAsImage
    \/ Persist

Spec == Init /\ [][Next]_vars

(***************************************************************************)
(* SimpleRandomInitializer on its own: the parameters and the positions    *)
(* are drawn from wider sets and the else-branch of UpdateTrackedObjects   *)
(* (lines 303-306) creates the objects.                                    *)
(***************************************************************************)
InitializerParams ==
    { Params(One, One, Rat(1, 10), One),
      Params(Half, One, Half, Half),
      Params(One, One, One, Quarter),
      Params(Half, Zero, One, One),
      Params(One, One, One, RNeg(Half)) }

GridCoordinates == { Zero, Quarter, Half, Rat(3, 4), One }

GridPositions == { <<x, y>> : x \in GridCoordinates, y \in GridCoordinates }

InitInitializer ==
    /\ parameters \in InitializerParams
    /\ F = MakeF(parameters)
    /\ H = MakeH
    /\ Q = MakeQ(parameters)
    /\ R = MakeR(parameters)
    /\ frames = 1
    /\ log_freq = 1
    /\ f = 0
    /\ pc = "initializer"
    /\ cause = "none"
    /\ state = EmptyDict
    /\ input_data = EmptyDict
    /\ pos_error = <<>>
    /\ vel_error = <<>>
    /\ persisted = <<>>
    /\ rendered = <<>>
    /\ processed = <<0>>
    /\ tracked_before = {}
    /\ events = NoEvents

InitializeObject ==
    /\ pc = "initializer"
    /\ \E oid \in ObjectIds \ DOMAIN state, pos \in GridPositions :
        LET s == [SimpleRandomInitializer(parameters, pos,
                                          Alloc("init", f, oid))
                  EXCEPT !.done = TRUE]
        IN  /\ state' = [o \in DOMAIN state \cup {oid} |->
                            IF o = oid THEN s ELSE state[o]]
            /\ events' = Log(events, {oid}, "create")
    /\ UNCHANGED <<model, args, f, pc, cause, input_data, pos_error, vel_error,
                   persisted, rendered, processed, tracked_before>>

SpecInitializer == InitInitializer /\ [][InitializeObject]_vars

(***************************************************************************)
(* The correction loop on its own: it starts after Predict and             *)
(* UpdateTrackedObjects of frame 0, with the predicted states, the         *)
(* covariances and the observations drawn from sets.                       *)
(***************************************************************************)
IntMat(A) ==
    Force([i \in 1..Len(A) |-> Force([j \in 1..Len(A[i]) |-> <<A[i][j], 1>>])])

CorrectParams == { Params(One, One, One, One), Params(One, Zero, One, One) }

CorrectCovs ==
    { Eye(4),
      Zeros(4, 4),
      IntMat(<< <<2, 0, 1, 0>>, <<0, 2, 0, 1>>, <<1, 0, 1, 0>>, <<0, 1, 0, 1>> >>),
      IntMat(<< <<1, 1, 0, 0>>, <<1, 1, 0, 0>>, <<0, 0, 1, 0>>, <<0, 0, 0, 1>> >>),
      Scale(Quarter,
            IntMat(<< <<4, 2, 0, 0>>, <<1, 4, 0, 0>>, <<3, 0, 4, 0>>, <<0, 5, 0, 8>> >>)) }

CorrectPredictions ==
    { <<Quarter, Zero, Half, Zero>>, <<Half, Quarter, Zero, RNeg(Half)>> }

CorrectObservations == { <<Quarter, Zero>>, <<Half, Quarter>>, <<Zero, Zero>> }

CorrectInputs ==
    { [x_obs |-> o, x_est |-> <<Zero, Zero, One, One>>, x_pred |-> xp,
       x_cov |-> c, cov_ref |-> ClassEye4, done |-> FALSE,
       x_true |-> <<Zero, Zero>>, v_true |-> <<Half, Zero>>] :
        o \in CorrectObservations, xp \in CorrectPredictions, c \in CorrectCovs }

InitCorrect ==
    /\ parameters \in CorrectParams
    /\ F = MakeF(parameters)
    /\ H = MakeH
    /\ Q = MakeQ(parameters)
    /\ R = MakeR(parameters)
    /\ frames = 1
    /\ log_freq = 1
    /\ f = 0
    /\ pc = "correct"
    /\ cause = "none"
    /\ \E S \in SUBSET ObjectIds, st \in [ObjectIds -> CorrectInputs] :
        /\ S # {}
        /\ state = [oid \in S |->
                      [st[oid] EXCEPT !.cov_ref = Alloc("predict", 0, oid)]]
        /\ input_data = [oid \in S |->
                           <<st[oid].x_true, st[oid].v_true, st[oid].x_obs>>]
        /\ tracked_before = S
        /\ events = Log(Log(Log(NoEvents, S, "predict"), S, "scan"), S, "observe")
    /\ pos_error = <<>>
    /\ vel_error = <<>>
    /\ persisted = <<>>
    /\ rendered = <<>>
    /\ processed = <<0>>

SpecCorrect == InitCorrect /\ [][Correct]_vars

(***************************************************************************)
(* Properties.                                                             *)
(***************************************************************************)
Has(oid, e) == \E i \in 1..Len(events[oid]) : events[oid][i] = e

Count(oid, e) == Cardinality({ i \in 1..Len(events[oid]) : events[oid][i] = e })

IsPhase(e) == e \in {"predict", "observe", "create", "correct"}

Stopped == ~ENABLED Next

\* C1: after UpdateTrackedObjects of a frame the tracked identities are
\* exactly the identities of the frame's record set; an identity absent from
\* the record set is neither corrected nor scored, and the frame's error
\* values are taken over the record set's identities only.
C1_TrackedSetIsRecordSet ==
    /\ DOMAIN state = DOMAIN input_data
    /\ \A oid \in ObjectIds \ DOMAIN input_data :
        ~Has(oid, "correct") /\ ~Has(oid, "score")
    /\ pc = "image" =>
        /\ DOMAIN pos_error[Len(pos_error)].sqrt_of = DOMAIN input_data
        /\ DOMAIN vel_error[Len(vel_error)].sqrt_of = DOMAIN input_data

\* A frame has been scored in which a tracked identity was missing from the
\* record set while another identity stayed.
C1_Witness ==
    /\ pc = "image"
    /\ \E oid \in tracked_before : oid \notin DOMAIN input_data
    /\ \E oid \in tracked_before : oid \in DOMAIN state

\* C2: an identity that is not tracked when Refresh starts and is in the
\* frame's record set is created done, is skipped by the correction loop,
\* and at the end of Estimate holds the initializer's estimate and
\* covariance for the frame's observed position.
C2_NewObjectKeepsInitialization ==
    pc \in {"correct", "error", "image"} =>
        \A oid \in DOMAIN state \ tracked_before :
            LET s   == state[oid]
                pos == input_data[oid][3]
                xe  == pos \o InitialVelocity(parameters, Side(parameters, pos))
            IN  /\ Has(oid, "create")
                /\ ~Has(oid, "correct")
                /\ s.done
                /\ s.x_obs = pos
                /\ s.x_est = xe
                /\ s.x_pred = xe
                /\ s.x_cov = InitialCov(parameters)
                /\ s.cov_ref = Alloc("init", f, oid)

\* An identity scored in an earlier frame, then removed, is created again in
\* a frame whose correction loop corrected another object.
C2_Witness ==
    /\ pc = "image"
    /\ \E oid \in DOMAIN state \ tracked_before :
        /\ \E k \in 1..(Len(pos_error) - 1) : oid \in DOMAIN pos_error[k].sqrt_of
        /\ \E other \in DOMAIN state : Has(other, "correct")

\* C3: Run processes the frames 0, 1, ... in order and appends one value to
\* each series per processed frame, whatever log_freq; a completed run has
\* persisted the two series, each of length frames (empty for frames = 0).
C3_OneErrorPairPerFrame ==
    /\ processed = [i \in 1..Len(processed) |-> i - 1]
    /\ Len(pos_error) = Len(vel_error)
    /\ pc \in {"loop", "predict", "refresh", "correct", "error"} =>
        Len(pos_error) = f
    /\ pc = "image" => Len(pos_error) = f + 1 /\ Len(processed) = f + 1
    /\ pc = "done" =>
        /\ persisted = <<pos_error, vel_error>>
        /\ Len(persisted[1]) = frames
        /\ Len(persisted[2]) = frames
        /\ Len(processed) = frames
    /\ pc # "done" => persisted = <<>>

\* A run of at least two frames is complete and did not log every frame.
C3_Witness ==
    /\ pc = "done"
    /\ frames >= 2
    /\ Len(rendered) < frames

\* C4: when the state file of frame f is missing the run aborts in frame f:
\* nothing is corrected or scored in the frame, no error value is appended
\* for it, the frame is entered once, and no step follows.
C4_MissingFrameAborts ==
    cause = "MissingFrameData" =>
        /\ pc = "aborted"
        /\ \A oid \in ObjectIds : ~Has(oid, "correct") /\ ~Has(oid, "score")
        /\ Len(pos_error) = f
        /\ Len(vel_error) = f
        /\ processed = [i \in 1..(f + 1) |-> i - 1]
        /\ persisted = <<>>
        /\ Stopped

\* The file of a later frame is missing, with objects tracked and predicted.
C4_Witness ==
    /\ cause = "MissingFrameData"
    /\ f >= 1
    /\ f + 1 < frames
    /\ \E oid \in DOMAIN state : Has(oid, "predict")

\* C5: the initial velocity is the one of the smallest index whose edge
\* distance |x-delta|, |y-delta|, |x-(1-delta)|, |y-(1-delta)| is minimal,
\* indices 0..3 giving (+v,0), (0,+v), (-v,0), (0,-v); with dt = 1,
\* v_mean = 1 and position (0,0) the state is (0,0,-1,0); the object is
\* created done with x_pred = x_est.
C5_InitializerFirstNearestEdge ==
    \A oid \in DOMAIN state :
        LET s     == state[oid]
            pos   == s.x_obs
            v     == parameters.v_mean
            delta == RMul(v, parameters.dt)
            far   == RSub(One, delta)
            dist  == << RAbs(RSub(pos[1], delta)), RAbs(RSub(pos[2], delta)),
                        RAbs(RSub(pos[1], far)), RAbs(RSub(pos[2], far)) >>
            vel   == << <<v, Zero>>, <<Zero, v>>,
                        <<RNeg(v), Zero>>, <<Zero, RNeg(v)>> >>
        IN  /\ \E side \in 0..3 :
                /\ \A j \in 0..3 : ~RLess(dist[j + 1], dist[side + 1])
                /\ \A j \in 0..(side - 1) : RLess(dist[side + 1], dist[j + 1])
                /\ s.x_est = pos \o vel[side + 1]
            /\ s.x_pred = s.x_est
            /\ s.done
            /\ (parameters.dt = One /\ v = One /\ pos = <<Zero, Zero>>) =>
                s.x_est = <<Zero, Zero, <<-1, 1>>, Zero>>

\* The fixture: dt = 1, v_mean = 1, an object created at (0,0), where the
\* distances of indices 2 and 3 tie.
C5_Witness ==
    /\ parameters.dt = One
    /\ parameters.v_mean = One
    /\ \E oid \in DOMAIN state : state[oid].x_obs = <<Zero, Zero>>

\* C6: an object the correction loop has corrected whose observation equals
\* H times its predicted state has x_est = x_pred, whatever its covariance.
C6_ZeroInnovationIdentity ==
    \A oid \in DOMAIN state :
        (Has(oid, "correct") /\ state[oid].x_obs = MatVec(H, state[oid].x_pred))
            => state[oid].x_est = state[oid].x_pred

\* An object was corrected with a zero innovation and a gain that is not
\* zero (its covariance changed).
C6_Witness ==
    \E oid \in DOMAIN state :
        /\ Has(oid, "correct")
        /\ state[oid].x_obs = MatVec(H, state[oid].x_pred)
        /\ state[oid].x_cov # Zeros(4, 4)
        /\ state[oid].x_cov \notin CorrectCovs

\* C7: no two tracked objects are bound to the same covariance array, none
\* to the class attribute eye4; within a frame the array of an object is the
\* one allocated for it by the last of creation, prediction and correction.
C7_NoSharedCovariance ==
    /\ \A a, b \in DOMAIN state :
        a # b => state[a].cov_ref # state[b].cov_ref
    /\ \A oid \in DOMAIN state : state[oid].cov_ref # ClassEye4
    /\ pc \in {"refresh", "correct", "error", "image"} =>
        \A oid \in DOMAIN state :
            state[oid].cov_ref =
                IF Has(oid, "correct") THEN Alloc("correct", f, oid)
                ELSE IF Has(oid, "create") THEN Alloc("init", f, oid)
                ELSE Alloc("predict", f, oid)

\* Two objects are created in one frame from the same observed position.
C7_Witness ==
    /\ pc = "correct"
    /\ \E a, b \in DOMAIN state :
        /\ a # b
        /\ Has(a, "create") /\ Has(b, "create")
        /\ state[a].x_cov = state[b].x_cov

\* C8: the removal pass walks the list of keys taken before any deletion:
\* it never fails, and it visits each identity tracked at the start of
\* UpdateTrackedObjects once.
C8_RemovalIsTwoPhase ==
    /\ cause # "RuntimeError"
    /\ pc \in {"correct", "error", "image"} =>
        \A oid \in ObjectIds :
            Count(oid, "scan") = IF oid \in tracked_before THEN 1 ELSE 0

\* Two objects were tracked and both were deleted in one pass.
C8_Witness ==
    /\ pc = "correct"
    /\ Cardinality(tracked_before) = 2
    /\ \A oid \in tracked_before : Has(oid, "delete")

\* C9: ComputeError with no tracked object raises ZeroDivisionError: no
\* value is appended to either series and no step follows; every scored
\* frame had a tracked object.
C9_EmptyTrackedSetFails ==
    /\ pc = "image" => DOMAIN state # {}
    /\ \A k \in 1..Len(pos_error) : pos_error[k].over > 0
    /\ \A k \in 1..Len(vel_error) : vel_error[k].over > 0
    /\ (pc = "aborted" /\ cause = "ZeroDivisionError" /\ log_freq # 0) =>
        /\ DOMAIN state = {}
        /\ Len(pos_error) = f
        /\ Len(vel_error) = f
        /\ Stopped

\* After scored frames, a frame with an empty record set was refused.
C9_Witness ==
    /\ pc = "aborted"
    /\ cause = "ZeroDivisionError"
    /\ f >= 1
    /\ f + 1 < frames
    /\ tracked_before # {}

\* C10: when Estimate has completed every tracked object is done, and an
\* object tracked before the frame and still tracked was predicted once,
\* then observed by UpdateTrackedObjects, then corrected once.
C10_PredictRefreshCorrect ==
    pc \in {"error", "image"} =>
        \A oid \in DOMAIN state :
            /\ state[oid].done
            /\ oid \in tracked_before =>
                SelectSeq(events[oid], IsPhase) = <<"predict", "observe", "correct">>

\* Estimate has completed with one object kept and corrected and another
\* one created.
C10_Witness ==
    /\ pc = "error"
    /\ \E oid \in DOMAIN state : oid \in tracked_before /\ Has(oid, "correct")
    /\ \E oid \in DOMAIN state : oid \notin tracked_before

====
